---------------------------- MODULE Spec2Model ----------------------------
(***************************************************************************)
(* RFFE protocol decoder (src/rffe/pd.py, class Decoder).                  *)
(*                                                                         *)
(* decode() is a coroutine that suspends in self.wait(conds).  The model   *)
(* keeps the decoder object in the record `dec` together with the wait     *)
(* site `pc` at which decode() is suspended.  Every step feeds one sample  *)
(* (sclk, sdata) of the sample source to the pending wait: when no         *)
(* condition matches, the sample is consumed and the decoder stays         *)
(* suspended; when one matches, the code after the wait runs up to the     *)
(* next wait.                                                              *)
(***************************************************************************)
EXTENDS Integers, Sequences, FiniteSets, TLC

VARIABLES
    dec,      \* the Decoder object, its wait site (pc), the pending cmdset
              \* argument (arg) and the annotations put() in the last step (out)
    pins,     \* <<sclk, sdata>> of the last sample consumed (old pins)
    now,      \* index of the last sample consumed, -1 before the first
    env,      \* the sample source: its waveform generator
    txn,      \* history: non-warning annotation kinds since the last SSC
    fbits,    \* history: the bits read for the open field or command
    vals,     \* history: the annotations of a scripted waveform, with values
    hist      \* history: about the open field (the sample of its first bit,
              \* the data edges seen and IJE put in its bit-waits), whether
              \* FIND SSC has warned since the last SSC, whether the sample is
              \* a clock rising edge, whether the clock has risen since the
              \* last command bit was read and whether a command bit was read
              \* again with no rising edge since the one before

vars == <<dec, pins, now, env, txn, fbits, vals, hist>>

----------------------------------------------------------------------------
(* Bounds of the model.                                                    *)

\* samples of an arbitrary stream
MaxFree == 14
\* clock periods of a waveform, all its frames together
MaxPeriods == 28
\* sequence starts of a waveform
MaxFrames == 2
\* consecutive idle samples of a waveform
MaxIdle == 1
\* data glitches of a waveform
MaxGlitch == 1

----------------------------------------------------------------------------
(* Python helpers.                                                         *)

\* ~x on a Python int
BitNot(x) == (0 - x) - 1

\* truth value of a Python int
Truthy(x) == x # 0

\* self.matched & (0b1 << k)
Bit(m, k) == ((m \div (2 ^ k)) % 2) = 1

Bits == {0, 1}

----------------------------------------------------------------------------
(* self.wait(): one condition term against the old and the new pin value.  *)

TermMatches(t, old, new) ==
    CASE t = "l" -> new = 0
      [] t = "h" -> new = 1
      [] t = "r" -> old = 0 /\ new = 1
      [] t = "f" -> old = 1 /\ new = 0
      [] t = "e" -> old # new
      [] OTHER   -> TRUE

\* a condition {0: c, 1: d}; "-" stands for a channel the dict leaves out
Cond(c, d) == [c |-> c, d |-> d]

CondMatches(cond, old, new) ==
    /\ TermMatches(cond.c, old[1], new[1])
    /\ TermMatches(cond.d, old[2], new[2])

RECURSIVE MaskFrom(_, _, _, _)
MaskFrom(conds, i, old, new) ==
    IF i > Len(conds) THEN 0
    ELSE (IF CondMatches(conds[i], old, new) THEN 2 ^ (i - 1) ELSE 0)
         + MaskFrom(conds, i + 1, old, new)

\* self.matched: bit k is set when condition k of the list matched
MatchMask(conds, old, new) == MaskFrom(conds, 1, old, new)

IJEWait == <<Cond("l", "e"), Cond("r", "-")>>

\* the condition list of the wait at each wait site
WaitList(p) ==
    CASE p = "ssc0" -> <<Cond("h", "-"), Cond("l", "f")>>
      [] p \in {"ssc1", "ssc2", "h1", "h2", "s1", "s2"} -> IJEWait
      [] p \in {"c1", "c2"} -> <<Cond("l", "e"), Cond("h", "-")>>
      [] p \in {"fld", "cmd"} -> <<Cond("h", "-")>>
      [] p = "bp0" -> <<Cond("l", "r"), Cond("l", "l")>>
      [] p = "bp1" -> <<Cond("l", "e"), Cond("l", "l")>>
      [] p = "bp2" -> <<Cond("r", "l"), Cond("l", "r")>>
      [] p = "bp3" -> <<Cond("r", "l"), Cond("f", "l"), Cond("l", "r")>>
      [] OTHER -> <<>>

----------------------------------------------------------------------------
(* The Decoder object.                                                     *)

\* (variant: the decoder starts in FIND SSC)
reset_findSSC ==
    [ss |-> -1, es |-> -1, bitcount |-> 0, databyte |-> 0,
     state |-> "FIND SSC", extended |-> -1, cmdkey |-> "NULL",
     BC |-> 0, Pcount |-> 0, BPcount |-> 0, ADDcount |-> 0,
     BPss |-> 0, SSCs |-> 0, Pes |-> 0, DATAss |-> -1,
     samplenum |-> -1, matched |-> 0,
     pc |-> "ssc0", arg |-> "", out |-> <<>>]

\* reset(), called by __init__; the coroutine has not reached a wait yet
reset ==
    [ss |-> -1, es |-> -1, bitcount |-> 0, databyte |-> 0,
     state |-> "FIND BUS_PARK", extended |-> -1, cmdkey |-> "NULL",
     BC |-> 0, Pcount |-> 0, BPcount |-> 0, ADDcount |-> 0,
     BPss |-> 0, SSCs |-> 0, Pes |-> 0, DATAss |-> -1,
     samplenum |-> -1, matched |-> 0,
     pc |-> "bp0", arg |-> "", out |-> <<>>]

\* putx() of a plain annotation [proto[cmd][0], proto[cmd][1:]]
putx(s, cmd) ==
    [s EXCEPT !.out = Append(@, [cmd |-> cmd, ss |-> s.ss, es |-> s.es,
                                 fmt |-> FALSE, key |-> 0, d |-> 0])]

\* putx() of a field annotation '%s[%d:0]: %02X' % (.., key, d)
putv(s, cmd, key, d) ==
    [s EXCEPT !.out = Append(@, [cmd |-> cmd, ss |-> s.ss, es |-> s.es,
                                 fmt |-> TRUE, key |-> key, d |-> d])]

\* the wait site the decode loop reaches from its top in state st
TopPc(st) ==
    CASE st = "FIND SSC" -> "ssc0"
      [] st \in {"FIND SLAVE ADDRESS", "FIND BTEY_COUNT", "FIND ADDRESS",
                 "FIND DATA", "FIND PARITY"} -> "fld"
      [] st = "FIND COMMAND" -> "cmd"
      [] st = "FIND BUS_PARK" -> "bp0"
      [] OTHER -> "spin"

\* back to the top of `while True` in decode()
loop(s) == [s EXCEPT !.pc = TopPc(s.state)]

\* (variant: Pcount is not cleared)
init_keepP(s) ==
    [s EXCEPT !.cmdkey = "NULL", !.ADDcount = 0, !.BPcount = 0,
              !.BC = 0, !.bitcount = 0, !.Pes = 0,
              !.state = IF s.state = "FIND COMMAND" THEN "FIND BUS_PARK"
                        ELSE "FIND SSC"]

\* init(), lines 297-308
init(s) ==
    [s EXCEPT !.cmdkey = "NULL", !.ADDcount = 0, !.Pcount = 0, !.BPcount = 0,
              !.BC = 0, !.bitcount = 0, !.Pes = 0,
              !.state = IF s.state = "FIND COMMAND" THEN "FIND BUS_PARK"
                        ELSE "FIND SSC"]

\* handle_BP(), lines 147-152
handle_BP(s, cmd, st) ==
    [putx([s EXCEPT !.ss = s.Pes, !.es = s.samplenum], cmd)
        EXCEPT !.state = st]

\* initBP(), lines 291-295
initBP(s, st, key) ==
    LET t == [handle_BP(s, "BP", st) EXCEPT !.state = st]
    IN  IF Truthy(key) THEN init(t) ELSE t


----------------------------------------------------------------------------
(* The illegal-jump-edge loop shared by handle, handle_CMD, cmdset:        *)
(*   while True: wait(W); if m&1: ss = samplenum; wait(W);                 *)
(*                            if m&1: es..; put IJE                        *)
(*                            if m&2: es..; put IJE; break                 *)
(*               if m&2: break                                             *)
(* p1 and p2 are the sites of the outer and the inner wait.                *)

\* the inner wait returned: TRUE when the loop is left
InnerBreaks(m) == Bit(m, 1)

\* (variant: the breaking branch puts no annotation)
Inner_silentBreak(s, m) ==
    LET a == IF Bit(m, 0) THEN putx([s EXCEPT !.es = s.samplenum], "IJE")
             ELSE s
    IN  IF Bit(m, 1) THEN [a EXCEPT !.es = a.samplenum] ELSE a

\* lines 168-174 (and the same lines of handle_CMD, cmdset, FIND SSC)
Inner(s, m) ==
    LET a == IF Bit(m, 0) THEN putx([s EXCEPT !.es = s.samplenum], "IJE")
             ELSE s
    IN  IF Bit(m, 1) THEN putx([a EXCEPT !.es = a.samplenum], "IJE") ELSE a

\* the outer wait returned with condition 0 matched: suspend in the inner wait
Outer(s, p2) == [s EXCEPT !.ss = s.samplenum, !.pc = p2]

----------------------------------------------------------------------------
(* handle(sclk, sdata, cmd, state, key)                                    *)

\* (variant: key 3 for the address of RW and RR)
FieldArgs_addr3(s) ==
    CASE s.state = "FIND SLAVE ADDRESS" ->
            [cmd |-> "SA", st |-> "FIND COMMAND", key |-> 3]
      [] s.state = "FIND BTEY_COUNT" ->
            [cmd |-> "BC", st |-> "FIND PARITY",
             key |-> IF s.cmdkey \in {"ERW", "ERR"} THEN 3 ELSE 2]
      [] s.state = "FIND ADDRESS" ->
            [cmd |-> "ADDRESS", st |-> "FIND PARITY",
             key |-> IF s.cmdkey \in {"RW", "RR"} THEN 3 ELSE 7]
      [] s.state = "FIND DATA" ->
            [cmd |-> "DATA", st |-> "FIND PARITY",
             key |-> IF s.cmdkey = "R0W" THEN 6
                     ELSE IF s.cmdkey \in {"RW", "RR"} THEN 7
                     ELSE s.BC * 8 - 1]
      [] OTHER ->
            [cmd |-> "P", st |-> "NULL", key |-> 0]

\* (variant: key 5 for the data of Register-0-Write)
FieldArgs_data5(s) ==
    CASE s.state = "FIND SLAVE ADDRESS" ->
            [cmd |-> "SA", st |-> "FIND COMMAND", key |-> 3]
      [] s.state = "FIND BTEY_COUNT" ->
            [cmd |-> "BC", st |-> "FIND PARITY",
             key |-> IF s.cmdkey \in {"ERW", "ERR"} THEN 3 ELSE 2]
      [] s.state = "FIND ADDRESS" ->
            [cmd |-> "ADDRESS", st |-> "FIND PARITY",
             key |-> IF s.cmdkey \in {"RW", "RR"} THEN 4 ELSE 7]
      [] s.state = "FIND DATA" ->
            [cmd |-> "DATA", st |-> "FIND PARITY",
             key |-> IF s.cmdkey = "R0W" THEN 5
                     ELSE IF s.cmdkey \in {"RW", "RR"} THEN 7
                     ELSE s.BC * 8 - 1]
      [] OTHER ->
            [cmd |-> "P", st |-> "NULL", key |-> 0]

\* the arguments decode() passes to handle() in each state
FieldArgs(s) ==
    CASE s.state = "FIND SLAVE ADDRESS" ->
            [cmd |-> "SA", st |-> "FIND COMMAND", key |-> 3]
      [] s.state = "FIND BTEY_COUNT" ->
            [cmd |-> "BC", st |-> "FIND PARITY",
             key |-> IF s.cmdkey \in {"ERW", "ERR"} THEN 3 ELSE 2]
      [] s.state = "FIND ADDRESS" ->
            [cmd |-> "ADDRESS", st |-> "FIND PARITY",
             key |-> IF s.cmdkey \in {"RW", "RR"} THEN 4 ELSE 7]
      [] s.state = "FIND DATA" ->
            [cmd |-> "DATA", st |-> "FIND PARITY",
             key |-> IF s.cmdkey = "R0W" THEN 6
                     ELSE IF s.cmdkey \in {"RW", "RR"} THEN 7
                     ELSE s.BC * 8 - 1]
      [] OTHER ->
            [cmd |-> "P", st |-> "NULL", key |-> 0]

\* lines 156-160: shift the sampled bit in, remember where the field began
handle_push(s, sdata) ==
    [s EXCEPT !.databyte = 2 * s.databyte + sdata,
              !.DATAss = IF s.bitcount = 0 THEN s.samplenum ELSE @,
              !.pc = "h1"]

\* (variant: the accumulator is not cleared)
handle_emit_keep(s, a) ==
    LET t == [s EXCEPT !.ss = s.DATAss, !.es = s.samplenum,
                       !.Pes = IF a.cmd = "P" THEN s.samplenum ELSE @]
    IN  [putv(t, a.cmd, a.key, t.databyte)
            EXCEPT !.bitcount = 0, !.state = a.st]

\* (variant: the start sample is not restored from DATAss)
handle_emit_stale(s, a) ==
    LET t == [s EXCEPT !.es = s.samplenum,
                       !.Pes = IF a.cmd = "P" THEN s.samplenum ELSE @]
    IN  [putv(t, a.cmd, a.key, t.databyte)
            EXCEPT !.bitcount = 0, !.databyte = 0, !.state = a.st]

\* lines 196-203: the field is complete
handle_emit(s, a) ==
    LET t == [s EXCEPT !.ss = s.DATAss, !.es = s.samplenum,
                       !.Pes = IF a.cmd = "P" THEN s.samplenum ELSE @]
    IN  [putv(t, a.cmd, a.key, t.databyte)
            EXCEPT !.bitcount = 0, !.databyte = 0, !.state = a.st]

\* lines 177-178 and 180-203: what handle() does once its wait loop is left
handle_done(s, a) ==
    IF s.bitcount < a.key THEN [s EXCEPT !.bitcount = s.bitcount + 1]
    ELSE handle_emit(s, a)

\* (variant: the second parity of Register-Read clears BPcount)
ParityDispatch_clearBP(s) ==
    CASE s.cmdkey = "R0W" -> [s EXCEPT !.state = "FIND BUS_PARK"]
      [] s.cmdkey = "ERW" ->
            IF s.Pcount = 1
            THEN [s EXCEPT !.ADDcount = 1, !.state = "FIND ADDRESS"]
            ELSE IF s.Pcount = 2 THEN [s EXCEPT !.state = "FIND DATA"]
                 ELSE s
      [] s.cmdkey = "ERR" ->
            IF s.Pcount = 1
            THEN [s EXCEPT !.ADDcount = 1, !.state = "FIND ADDRESS"]
            ELSE IF s.Pcount = 2
                 THEN [s EXCEPT !.BPcount = 1, !.state = "FIND BUS_PARK"]
                 ELSE s
      [] s.cmdkey = "ERWL" ->
            IF s.Pcount = 1
            THEN [s EXCEPT !.ADDcount = 2, !.state = "FIND ADDRESS"]
            ELSE IF s.Pcount = 2
                 THEN [s EXCEPT !.ADDcount = 1, !.state = "FIND ADDRESS"]
                 ELSE IF s.Pcount = 3 THEN [s EXCEPT !.state = "FIND DATA"]
                      ELSE s
      [] s.cmdkey = "ERRL" ->
            IF s.Pcount = 1
            THEN [s EXCEPT !.ADDcount = 2, !.state = "FIND ADDRESS"]
            ELSE IF s.Pcount = 2
                 THEN [s EXCEPT !.ADDcount = 1, !.state = "FIND ADDRESS"]
                 ELSE IF s.Pcount = 3
                      THEN [s EXCEPT !.BPcount = 1, !.state = "FIND BUS_PARK"]
                      ELSE s
      [] s.cmdkey = "RW" ->
            IF s.Pcount = 1 THEN [s EXCEPT !.state = "FIND DATA"]
            ELSE IF s.Pcount = 2
                 THEN [s EXCEPT !.BPcount = 1, !.state = "FIND BUS_PARK"]
                 ELSE s
      [] s.cmdkey = "RR" ->
            [s EXCEPT !.state = "FIND BUS_PARK",
                      !.BPcount = IF s.Pcount = 1 THEN 1 ELSE 0]
      [] OTHER -> s

\* (variant: no branch for the second parity of Register-Write)
ParityDispatch_noRWpark(s) ==
    CASE s.cmdkey = "R0W" -> [s EXCEPT !.state = "FIND BUS_PARK"]
      [] s.cmdkey = "ERW" ->
            IF s.Pcount = 1
            THEN [s EXCEPT !.ADDcount = 1, !.state = "FIND ADDRESS"]
            ELSE IF s.Pcount = 2 THEN [s EXCEPT !.state = "FIND DATA"]
                 ELSE s
      [] s.cmdkey = "ERR" ->
            IF s.Pcount = 1
            THEN [s EXCEPT !.ADDcount = 1, !.state = "FIND ADDRESS"]
            ELSE IF s.Pcount = 2
                 THEN [s EXCEPT !.BPcount = 1, !.state = "FIND BUS_PARK"]
                 ELSE s
      [] s.cmdkey = "ERWL" ->
            IF s.Pcount = 1
            THEN [s EXCEPT !.ADDcount = 2, !.state = "FIND ADDRESS"]
            ELSE IF s.Pcount = 2
                 THEN [s EXCEPT !.ADDcount = 1, !.state = "FIND ADDRESS"]
                 ELSE IF s.Pcount = 3 THEN [s EXCEPT !.state = "FIND DATA"]
                      ELSE s
      [] s.cmdkey = "ERRL" ->
            IF s.Pcount = 1
            THEN [s EXCEPT !.ADDcount = 2, !.state = "FIND ADDRESS"]
            ELSE IF s.Pcount = 2
                 THEN [s EXCEPT !.ADDcount = 1, !.state = "FIND ADDRESS"]
                 ELSE IF s.Pcount = 3
                      THEN [s EXCEPT !.BPcount = 1, !.state = "FIND BUS_PARK"]
                      ELSE s
      [] s.cmdkey = "RW" ->
            IF s.Pcount = 1 THEN [s EXCEPT !.state = "FIND DATA"]
            ELSE s
      [] s.cmdkey = "RR" ->
            [s EXCEPT !.state = "FIND BUS_PARK",
                      !.BPcount = IF s.Pcount = 1 THEN 1 ELSE 2]
      [] OTHER -> s

\* lines 373-412: the next state after a parity field
ParityDispatch(s) ==
    CASE s.cmdkey = "R0W" -> [s EXCEPT !.state = "FIND BUS_PARK"]
      [] s.cmdkey = "ERW" ->
            IF s.Pcount = 1
            THEN [s EXCEPT !.ADDcount = 1, !.state = "FIND ADDRESS"]
            ELSE IF s.Pcount = 2 THEN [s EXCEPT !.state = "FIND DATA"]
                 ELSE s
      [] s.cmdkey = "ERR" ->
            IF s.Pcount = 1
            THEN [s EXCEPT !.ADDcount = 1, !.state = "FIND ADDRESS"]
            ELSE IF s.Pcount = 2
                 THEN [s EXCEPT !.BPcount = 1, !.state = "FIND BUS_PARK"]
                 ELSE s
      [] s.cmdkey = "ERWL" ->
            IF s.Pcount = 1
            THEN [s EXCEPT !.ADDcount = 2, !.state = "FIND ADDRESS"]
            ELSE IF s.Pcount = 2
                 THEN [s EXCEPT !.ADDcount = 1, !.state = "FIND ADDRESS"]
                 ELSE IF s.Pcount = 3 THEN [s EXCEPT !.state = "FIND DATA"]
                      ELSE s
      [] s.cmdkey = "ERRL" ->
            IF s.Pcount = 1
            THEN [s EXCEPT !.ADDcount = 2, !.state = "FIND ADDRESS"]
            ELSE IF s.Pcount = 2
                 THEN [s EXCEPT !.ADDcount = 1, !.state = "FIND ADDRESS"]
                 ELSE IF s.Pcount = 3
                      THEN [s EXCEPT !.BPcount = 1, !.state = "FIND BUS_PARK"]
                      ELSE s
      [] s.cmdkey = "RW" ->
            IF s.Pcount = 1 THEN [s EXCEPT !.state = "FIND DATA"]
            ELSE IF s.Pcount = 2
                 THEN [s EXCEPT !.BPcount = 1, !.state = "FIND BUS_PARK"]
                 ELSE s
      [] s.cmdkey = "RR" ->
            [s EXCEPT !.state = "FIND BUS_PARK",
                      !.BPcount = IF s.Pcount = 1 THEN 1 ELSE 2]
      [] OTHER -> s

\* handle() returned to decode(): lines 340-372, then the top of the loop
handle_return(s) ==
    LET wasParity == s.state = "FIND PARITY"
        t == handle_done(s, FieldArgs(s))
    IN  loop(IF wasParity THEN ParityDispatch(t) ELSE t)

\* decode() in a field state: wait({0: 'h'}) returned (sclk, sdata)
decode_field(s, sdata) ==
    handle_push(IF s.state = "FIND PARITY"
                THEN [s EXCEPT !.Pcount = s.Pcount + 1] ELSE s, sdata)

\* the waits of handle(): sites h1 (outer) and h2 (inner)
handle_wait(s, m) ==
    IF s.pc = "h1"
    THEN IF Bit(m, 0) THEN Outer(s, "h2")
         ELSE IF Bit(m, 1) THEN handle_return(s) ELSE s
    ELSE LET t == Inner(s, m)
         IN  IF InnerBreaks(m) THEN handle_return(t)
             ELSE [t EXCEPT !.pc = "h1"]

----------------------------------------------------------------------------
(* handle_CMD(sclk, sdata) and cmdset(cmd, state)                          *)

\* (variant: Register-0-Write goes on to an address)
CmdState_r0wAddr(cmd) ==
    CASE cmd \in {"R0W", "RR", "RW"} -> "FIND ADDRESS"
      [] OTHER -> "FIND BTEY_COUNT"

\* the state cmdset() is called with for each command
CmdState(cmd) ==
    CASE cmd = "R0W" -> "FIND DATA"
      [] cmd \in {"RR", "RW"} -> "FIND ADDRESS"
      [] OTHER -> "FIND BTEY_COUNT"

\* cmdset() entered: suspend in its first wait
cmdset_call(s, cmd) == [s EXCEPT !.arg = cmd, !.pc = "s1"]

\* lines 283-289
cmdset_emit(s) ==
    LET t == putx([s EXCEPT !.ss = s.DATAss, !.es = s.samplenum], s.arg)
    IN  loop([t EXCEPT !.state = CmdState(s.arg), !.bitcount = 0,
                       !.extended = -1, !.cmdkey = s.arg, !.arg = ""])

cmdset_wait(s, m) ==
    IF s.pc = "s1"
    THEN IF Bit(m, 0) THEN Outer(s, "s2")
         ELSE IF Bit(m, 1) THEN cmdset_emit(s) ELSE s
    ELSE LET t == Inner(s, m)
         IN  IF InnerBreaks(m) THEN cmdset_emit(t)
             ELSE [t EXCEPT !.pc = "s1"]

\* lines 250-265 from the loop's end: bitcount += 1, back to decode()
handle_CMD_next(s) == loop([s EXCEPT !.bitcount = s.bitcount + 1])

\* lines 250-252: the bit did not classify the command
handle_CMD_tail(s) ==
    IF s.bitcount < 4 THEN [s EXCEPT !.pc = "c1"] ELSE loop(s)

\* lines 205-248 with the code's own tests (~x is the bitwise complement)
handle_CMD(s, sdata) ==
    LET a == IF s.bitcount = 0 THEN [s EXCEPT !.DATAss = s.samplenum] ELSE s
        b == IF a.bitcount = 1
             THEN [a EXCEPT !.extended = IF Truthy(sdata) THEN 0 ELSE 1]
             ELSE a
    IN  IF b.bitcount = 0 /\ Truthy(sdata) THEN cmdset_call(b, "R0W")
        ELSE IF b.bitcount = 2 /\ Truthy(BitNot(b.extended))
        THEN cmdset_call(b, IF Truthy(sdata) THEN "RR" ELSE "RW")
        ELSE IF b.bitcount = 3 /\ Truthy(BitNot(sdata))
        THEN cmdset_call(b, IF Truthy(b.extended) THEN "ERR" ELSE "ERW")
        ELSE IF b.bitcount = 3 /\ Truthy(b.extended)
        THEN loop(init(putx([b EXCEPT !.es = b.samplenum], "CMD_WARNINGS")))
        ELSE IF b.bitcount = 4
        THEN cmdset_call(b, IF Truthy(sdata) THEN "ERRL" ELSE "ERWL")
        ELSE handle_CMD_tail(b)

\* the waits of handle_CMD(): sites c1 (outer) and c2 (inner)
handle_CMD_wait(s, m) ==
    IF s.pc = "c1"
    THEN IF Bit(m, 0) THEN Outer(s, "c2")
         ELSE IF Bit(m, 1) THEN handle_CMD_next(s) ELSE s
    ELSE LET t == Inner(s, m)
         IN  IF InnerBreaks(m) THEN handle_CMD_next(t)
             ELSE [t EXCEPT !.pc = "c1"]

----------------------------------------------------------------------------
(* decode(): FIND SSC                                                      *)

\* (variant: the slave address state is skipped)
ssc_emit_skipSA(s) ==
    loop([putx([s EXCEPT !.ss = s.BPss, !.es = s.samplenum], "SSC")
            EXCEPT !.state = "FIND COMMAND"])

\* lines 329-331 and 334-336
ssc_emit(s) ==
    loop([putx([s EXCEPT !.ss = s.BPss, !.es = s.samplenum], "SSC")
            EXCEPT !.state = "FIND SLAVE ADDRESS"])

\* (variant: the warning leaves the state FIND SSC)
find_ssc_warnstay(s, m) ==
    CASE s.pc = "ssc0" ->
            LET a == IF Bit(m, 0)
                     THEN putx([s EXCEPT !.ss = s.samplenum,
                                         !.es = s.samplenum], "SSC_WARNINGS")
                     ELSE s
            IN  IF Bit(m, 1) THEN [a EXCEPT !.pc = "ssc1"] ELSE loop(a)
      [] s.pc = "ssc1" ->
            IF Bit(m, 0) THEN Outer(s, "ssc2")
            ELSE IF Bit(m, 1) THEN ssc_emit(s) ELSE loop(s)
      [] OTHER ->
            LET t == Inner(s, m)
            IN  IF Bit(m, 1) THEN ssc_emit(t) ELSE loop(t)

\* lines 312-336
find_ssc(s, m) ==
    CASE s.pc = "ssc0" ->
            LET a == IF Bit(m, 0)
                     THEN [putx([s EXCEPT !.ss = s.samplenum,
                                          !.es = s.samplenum], "SSC_WARNINGS")
                              EXCEPT !.state = "FIND BUS_PARK"]
                     ELSE s
            IN  IF Bit(m, 1) THEN [a EXCEPT !.pc = "ssc1"] ELSE loop(a)
      [] s.pc = "ssc1" ->
            IF Bit(m, 0) THEN Outer(s, "ssc2")
            ELSE IF Bit(m, 1) THEN ssc_emit(s) ELSE loop(s)
      [] OTHER ->
            LET t == Inner(s, m)
            IN  IF Bit(m, 1) THEN ssc_emit(t) ELSE loop(t)

----------------------------------------------------------------------------
(* decode(): FIND BUS_PARK                                                 *)

\* (variant: every bus park ends the transaction)
bus_park_cmd_always_reset(s) ==
    IF s.cmdkey \in {"ERR", "ERRL", "RR"}
    THEN loop(initBP(s, "FIND DATA", 1))
    ELSE loop(initBP(s, "FIND SSC", 1))

\* (variant: the bus park of a write does not clear the context)
bus_park_cmd_keep(s) ==
    IF s.cmdkey \in {"ERR", "ERRL", "RR"}
    THEN loop(initBP(s, "FIND DATA", IF s.BPcount = 1 THEN 0 ELSE 1))
    ELSE loop(initBP(s, "FIND SSC", 0))

\* lines 445-449: a bus park inside a transaction
bus_park_cmd(s) ==
    IF s.cmdkey \in {"ERR", "ERRL", "RR"}
    THEN loop(initBP(s, "FIND DATA", IF s.BPcount = 1 THEN 0 ELSE 1))
    ELSE loop(initBP(s, "FIND SSC", 1))

\* lines 426-449: condition 1 of the bus-park wait matched
bus_park_found(s) ==
    LET t == [s EXCEPT !.BPss = s.samplenum]
    IN  IF t.cmdkey = "NULL" THEN [t EXCEPT !.pc = "bp2"]
        ELSE bus_park_cmd(t)

\* lines 414-449
find_bus_park(s, m) ==
    CASE s.pc = "bp0" ->
            IF Bit(m, 0) THEN Outer(s, "bp1")
            ELSE IF Bit(m, 1) THEN bus_park_found(s) ELSE loop(s)
      [] s.pc = "bp1" ->
            LET t == Inner(s, m)
            IN  IF Bit(m, 1) THEN bus_park_found(t) ELSE loop(t)
      [] s.pc = "bp2" ->
            IF Bit(m, 0) THEN Outer(s, "bp3")
            ELSE IF Bit(m, 1) THEN loop([s EXCEPT !.state = "FIND SSC"])
                 ELSE loop(s)
      [] OTHER ->
            LET a == IF Bit(m, 0)
                     THEN [putx([s EXCEPT !.es = s.samplenum], "SSC_WARNINGS")
                              EXCEPT !.state = "FIND BUS_PARK"]
                     ELSE s
                b == IF Bit(m, 1) THEN [a EXCEPT !.BPss = a.samplenum] ELSE a
            IN  IF Bit(m, 2) THEN loop([b EXCEPT !.state = "FIND SSC"])
                ELSE IF Bit(m, 1) THEN loop([b EXCEPT !.state = "FIND SSC"])
                     ELSE loop(b)


----------------------------------------------------------------------------
(* History variables (they record what happened; the decoder never reads   *)
(* them).                                                                  *)

Warnings == {"IJE", "SSC_WARNINGS", "CMD_WARNINGS"}
Commands == {"R0W", "RW", "RR", "ERW", "ERR", "ERWL", "ERRL"}
Fields == {"SA", "BC", "ADDRESS", "DATA", "P"}

RECURSIVE TxnAfter(_, _, _)
TxnAfter(t, o, i) ==
    IF i > Len(o) THEN t
    ELSE TxnAfter(IF o[i].cmd = "SSC" THEN <<"SSC">>
                  ELSE IF o[i].cmd \in Warnings THEN t
                  ELSE Append(t, o[i].cmd), o, i + 1)

Emits(o, kinds) == \E i \in 1..Len(o) : o[i].cmd \in kinds

CountOut(o, kinds) == Cardinality({i \in 1..Len(o) : o[i].cmd \in kinds})

RECURSIVE ValsAfter(_, _, _)
ValsAfter(v, o, i) ==
    IF i > Len(o) THEN v
    ELSE ValsAfter(IF o[i].cmd \in Warnings \cup {"SSC"} THEN v
                   ELSE Append(v, [cmd |-> o[i].cmd, d |-> o[i].d]), o, i + 1)

\* the bookkeeping of one step: p is the wait site the sample was fed to,
\* m the match mask, sclk and sdata the sample, s2 the decoder after the
\* step,
\* scripted whether the waveform follows a script
Record(p, m, sclk, sdata, s2, scripted) ==
    LET open == IF Emits(dec.out, Fields \cup Commands) THEN <<>> ELSE fbits
        read == p \in {"fld", "cmd"} /\ m # 0
        first == read /\ open = <<>>
        rising == pins[1] = 0 /\ sclk = 1
    IN  /\ txn' = TxnAfter(txn, s2.out, 1)
        /\ fbits' = IF read THEN Append(open, sdata) ELSE open
        /\ vals' = IF scripted THEN ValsAfter(vals, s2.out, 1) ELSE vals
        /\ hist' = [first |-> IF first THEN now + 1 ELSE hist.first,
                    edges |-> (IF first THEN 0 ELSE hist.edges)
                              + (IF p \in {"h1", "h2"} /\ Bit(m, 0)
                                 THEN 1 ELSE 0),
                    ijes |-> (IF first THEN 0 ELSE hist.ijes)
                             + (IF p \in {"h1", "h2"}
                                THEN CountOut(s2.out, {"IJE"}) ELSE 0),
                    warned |-> IF Emits(s2.out, {"SSC"}) THEN FALSE
                               ELSE IF p = "ssc0" /\ Bit(m, 0) THEN TRUE
                               ELSE hist.warned,
                    rise |-> rising,
                    rose |-> IF p = "cmd" /\ m # 0 THEN FALSE
                             ELSE IF p \in {"cmd", "c1", "c2"}
                                  THEN hist.rose \/ rising
                                  ELSE FALSE,
                    again |-> /\ p = "cmd" /\ m # 0 /\ open # <<>>
                              /\ ~(hist.rose \/ rising)]

----------------------------------------------------------------------------
(* The sample source.  It delivers either an arbitrary stream of at most   *)
(* MaxFree samples ("free"), or an RFFE-shaped waveform ("clk"): the bus   *)
(* idles low, SDATA pulses high and low again while SCLK is low (the       *)
(* sequence start), then SCLK runs periods of H high and L low samples     *)
(* with one data bit per period, and the bus idles again after a period    *)
(* that leaves SDATA low.  SDATA may toggle while SCLK is low (a glitch).  *)
(* The bits are arbitrary, or those of a script (one bit per period).      *)

\* the Register-Write scenario, one bit per clock period: slave address,
\* command, address, parity, data, parity, bus-park cycle
ScriptRW4 == <<1,0,1,0>> \o <<0,1,0>> \o <<0,1,1,0>> \o <<1>>
             \o <<1,1,0,0,1,0,1,0>> \o <<0>> \o <<0>>

\* the same with a five-bit address
ScriptRW5 == <<1,0,1,0>> \o <<0,1,0>> \o <<0,0,1,1,0>> \o <<1>>
             \o <<1,1,0,0,1,0,1,0>> \o <<0>> \o <<0>>

\* a frame with the reserved command bits 0,0,0,1,0
ScriptReserved == <<1,0,1,0>> \o <<0,0,0,1,0>> \o <<0,0,0>> \o <<0>>

\* an Extended-Register-Read-Long frame: slave address, command 0,0,1,1,1,
\* byte count, parity, two address bytes with parity, bus park, one data
\* byte with parity, bus park
ScriptERRL == <<1,0,1,0>> \o <<0,0,1,1,1>> \o <<0,0,1>> \o <<1>>
              \o <<0,0,0,0,0,0,0,1>> \o <<0>>
              \o <<0,0,0,0,0,0,1,0>> \o <<0>> \o <<0>>
              \o <<1,0,1,0,1,0,1,0>> \o <<1>> \o <<0>>

Scripts == {ScriptRW4, ScriptRW5, ScriptReserved, ScriptERRL}

\* frame lengths in clock periods, bus-park cycles included: a frame cut
\* inside its command, Register-0-Write, Register-Write, Register-Read
FrameEnds == {6, 14, 23, 24}

\* the shapes the scripts are played with: SCLK high for two samples
ScriptShapes == {<<2, 1>>, <<2, 2>>}

\* <<H, L>>: high and low samples of a clock period
Shapes == {<<1, 1>>, <<2, 1>>, <<3, 1>>, <<2, 2>>}

FreeEnv == [mode |-> "free", H |-> 0, L |-> 0, ph |-> "idle", k |-> 0,
            frames |-> 0, periods |-> 0, left |-> 0, glitches |-> 0,
            script |-> <<>>]

\* a waveform of the given shape with at most g glitches and f frames
ClkEnv(shape, script, g, f) ==
    [mode |-> "clk", H |-> shape[1], L |-> shape[2], ph |-> "idle", k |-> 0,
     frames |-> f, periods |-> 0, left |-> MaxPeriods, glitches |-> g,
     script |-> script]

\* the sources: an arbitrary stream; one clean frame of each shape; one
\* frame with glitches; several clean frames; the scripts
EnvInit == {FreeEnv}
           \cup {ClkEnv(sh, <<>>, 0, 1) : sh \in Shapes}
           \cup {ClkEnv(<<2, 1>>, <<>>, MaxGlitch, 1)}
           \cup {ClkEnv(<<2, 1>>, <<>>, 0, MaxFrames)}
           \cup {ClkEnv(sh, sc, 0, 1) : sh \in ScriptShapes, sc \in Scripts}

Scripted == env.script # <<>>

\* the data bits the next clock period may carry
PeriodBits ==
    IF Scripted
    THEN IF env.periods < Len(env.script)
         THEN {env.script[env.periods + 1]} ELSE {}
    ELSE IF env.left > 0 THEN Bits ELSE {}

\* the frame may end after a period that leaves SDATA low and completes a
\* frame of one of the lengths FrameEnds (a script ends where it ends)
FrameMayEnd ==
    /\ pins[2] = 0
    /\ IF Scripted THEN env.periods = Len(env.script)
       ELSE env.periods \in FrameEnds

\* a new clock period: the rising sample
Rising ==
    {<<<<1, b>>, [env EXCEPT !.ph = "high", !.k = 1,
                             !.periods = env.periods + 1,
                             !.left = IF Scripted THEN @ ELSE @ - 1]>> :
        b \in PeriodBits}

\* SCLK low: SDATA holds, or toggles (a glitch)
Low(k) ==
    {<<<<0, pins[2]>>, [env EXCEPT !.ph = "low", !.k = k]>>}
    \cup IF env.glitches > 0
         THEN {<<<<0, 1 - pins[2]>>,
                 [env EXCEPT !.ph = "low", !.k = k,
                             !.glitches = env.glitches - 1]>>}
         ELSE {}

\* the bus goes idle, or stays idle
Idle(k) ==
    IF k <= MaxIdle
    THEN {<<<<0, 0>>, [env EXCEPT !.ph = "idle", !.k = k]>>} ELSE {}

\* SDATA pulses high while SCLK is low
Pulse ==
    IF env.frames > 0
    THEN {<<<<0, 1>>, [env EXCEPT !.ph = "pulse", !.k = 0, !.periods = 0,
                                  !.frames = env.frames - 1]>>}
    ELSE {}

\* the samples the source may deliver next, each with the source's next state
EnvNext ==
    IF env.mode = "free"
    THEN IF now + 1 < MaxFree
         THEN {<<smp, env>> : smp \in Bits \X Bits} ELSE {}
    ELSE CASE env.ph = "idle"  -> Idle(env.k + 1) \cup Pulse
           [] env.ph = "pulse" ->
                {<<<<0, 0>>, [env EXCEPT !.ph = "fall"]>>}
           [] env.ph = "fall"  -> Rising
           [] env.ph = "high"  ->
                IF env.k < env.H
                THEN {<<<<1, pins[2]>>, [env EXCEPT !.k = env.k + 1]>>}
                ELSE Low(1)
           [] OTHER ->
                IF env.k < env.L THEN Low(env.k + 1)
                ELSE Rising \cup (IF FrameMayEnd THEN Idle(1) ELSE {})

\* the decoder resumed by a sample that matched with mask m
Resumed(m) == [dec EXCEPT !.samplenum = now + 1, !.matched = m, !.out = <<>>]

Mask(smp) == MatchMask(WaitList(dec.pc), pins, smp)

\* the frame of every step: the sample is consumed
Feed(x, s2) ==
    /\ pins' = x[1]
    /\ now' = now + 1
    /\ env' = x[2]
    /\ dec' = s2
    /\ Record(dec.pc, Mask(x[1]), x[1][1], x[1][2], s2, x[2].script # <<>>)

----------------------------------------------------------------------------
(* Steps.                                                                  *)

Init ==
    /\ dec = reset
    /\ pins \in Bits \X Bits
    /\ now = -1
    /\ env \in EnvInit
    /\ txn = <<>>
    /\ fbits = <<>>
    /\ vals = <<>>
    /\ hist = [first |-> -1, edges |-> 0, ijes |-> 0, warned |-> FALSE,
               rise |-> FALSE, rose |-> FALSE, again |-> FALSE]

\* a step of the decoder on the sample x[1]: the wait at one of the sites
\* `sites` returns with a match and the code runs on to the next wait
Step(x, sites, s2) ==
    /\ dec.pc \in sites
    /\ Mask(x[1]) # 0
    /\ Feed(x, s2)

\* wait(): the sample matches no condition of the pending wait
WaitSkipOn(x) ==
    /\ dec.pc # "spin"
    /\ Mask(x[1]) = 0
    /\ Feed(x, [dec EXCEPT !.out = <<>>])

FindSSCOn(x) ==
    Step(x, {"ssc0", "ssc1", "ssc2"},
         find_ssc(Resumed(Mask(x[1])), Mask(x[1])))

FindBusParkOn(x) ==
    Step(x, {"bp0", "bp1", "bp2", "bp3"},
         find_bus_park(Resumed(Mask(x[1])), Mask(x[1])))

DecodeFieldOn(x) ==
    Step(x, {"fld"}, decode_field(Resumed(Mask(x[1])), x[1][2]))

HandleWaitOn(x) ==
    Step(x, {"h1", "h2"}, handle_wait(Resumed(Mask(x[1])), Mask(x[1])))

DecodeCommandOn(x) ==
    Step(x, {"cmd"}, handle_CMD(Resumed(Mask(x[1])), x[1][2]))

HandleCmdWaitOn(x) ==
    Step(x, {"c1", "c2"}, handle_CMD_wait(Resumed(Mask(x[1])), Mask(x[1])))

CmdsetWaitOn(x) ==
    Step(x, {"s1", "s2"}, cmdset_wait(Resumed(Mask(x[1])), Mask(x[1])))

WaitSkip == \E x \in EnvNext : WaitSkipOn(x)

FindSSC == \E x \in EnvNext : FindSSCOn(x)

FindBusPark == \E x \in EnvNext : FindBusParkOn(x)

DecodeField == \E x \in EnvNext : DecodeFieldOn(x)

HandleWait == \E x \in EnvNext : HandleWaitOn(x)

DecodeCommand == \E x \in EnvNext : DecodeCommandOn(x)

HandleCmdWait == \E x \in EnvNext : HandleCmdWaitOn(x)

CmdsetWait == \E x \in EnvNext : CmdsetWaitOn(x)

Next ==
    \/ WaitSkip
    \/ FindSSC
    \/ FindBusPark
    \/ DecodeField
    \/ HandleWait
    \/ DecodeCommand
    \/ HandleCmdWait
    \/ CmdsetWait

Spec == Init /\ [][Next]_vars

----------------------------------------------------------------------------
(* Properties.                                                             *)

\* the annotations of the transaction after its command
AfterCommand == SubSeq(txn, 4, Len(txn))

\* the field annotations the specification lists for a command
FieldSequence(cmd) ==
    CASE cmd = "R0W" -> <<"DATA", "P", "BP">>
      [] cmd = "RW"  -> <<"ADDRESS", "P", "DATA", "P", "BP">>
      [] cmd = "RR"  -> <<"ADDRESS", "P", "BP", "DATA", "P", "BP">>
      [] OTHER       -> <<>>

IsPrefix(a, b) == Len(a) <= Len(b) /\ a = SubSeq(b, 1, Len(a))

\* the decoder has re-armed for a new sequence start
Rearmed == dec.cmdkey = "NULL"

\* C1: after the command annotation R0W, RW or RR the non-warning
\* annotations are, in order, DATA P BP, ADDRESS P DATA P BP, or
\* ADDRESS P BP DATA P BP respectively: at every moment they are a prefix of
\* that sequence, and the decoder re-arms for a new sequence start exactly
\* when the sequence is complete.
C1_FieldSequence ==
    (Len(txn) >= 3 /\ txn[3] \in {"R0W", "RW", "RR"}) =>
        /\ IsPrefix(AfterCommand, FieldSequence(txn[3]))
        /\ Rearmed <=> AfterCommand = FieldSequence(txn[3])

\* a Register-Read transaction has run to its second bus park
C1_Witness ==
    /\ Len(txn) >= 3 /\ txn[3] = "RR"
    /\ AfterCommand = FieldSequence("RR")
    /\ dec.state = "FIND SSC"

\* the sequence start of the frame has been annotated
AfterSSC == txn # <<>>

\* the script has been played to its end
PlayedOut == Scripted /\ env.ph = "idle" /\ env.periods = Len(env.script)

\* the annotations the Register-Write scenario of the specification lists
RegisterWriteOutput ==
    << [cmd |-> "SA", d |-> 10], [cmd |-> "RW", d |-> 0],
       [cmd |-> "ADDRESS", d |-> 6], [cmd |-> "P", d |-> 1],
       [cmd |-> "DATA", d |-> 202], [cmd |-> "P", d |-> 0],
       [cmd |-> "BP", d |-> 0] >>

C3_Ordering ==
    \A i \in 1..Len(txn) :
        /\ txn[i] = "SSC" <=> i = 1
        /\ txn[i] = "SA" => i = 2
        /\ txn[i] \in Commands => (i = 3 /\ txn[2] = "SA")

\* a command annotation has followed SSC and SA
C3_Witness ==
    /\ Len(txn) = 3
    /\ txn[1] = "SSC" /\ txn[2] = "SA" /\ txn[3] \in Commands
    /\ Emits(dec.out, Commands)

\* C4: when an SSC annotation is put, the parity, address and bus-park
\* counters are zero and the command key is the 'none' value, whatever
\* came before.
C4_CleanStart ==
    Emits(dec.out, {"SSC"}) =>
        /\ dec.Pcount = 0 /\ dec.ADDcount = 0 /\ dec.BPcount = 0
        /\ dec.cmdkey = "NULL"

\* an SSC annotation is put after an earlier transaction had decoded fields
C4_Witness == Emits(dec.out, {"SSC"}) /\ dec.DATAss # -1

\* the unsigned integer formed by bits, the first bit most significant
RECURSIVE BitsValue(_)
BitsValue(b) ==
    IF b = <<>> THEN 0
    ELSE 2 * BitsValue(SubSeq(b, 1, Len(b) - 1)) + b[Len(b)]

\* the bits sampled so far for the field being read
OpenBits == IF Emits(dec.out, Fields \cup Commands) THEN <<>> ELSE fbits

\* C5: when a field is annotated and exactly one data edge with the clock
\* low has been seen in its bit-waits, exactly one IJE annotation has been
\* put in those bit-waits, before the field's annotation, and the field's
\* annotation is what it is without the edge: it starts at the sample of the
\* field's first bit, ends at the current sample, and reports as many bits
\* as were sampled with the value they form.
C5_OneEdgeOneIJE ==
    \A i \in 1..Len(dec.out) :
        (dec.out[i].cmd \in Fields /\ hist.edges = 1) =>
            /\ hist.ijes = 1
            /\ \A j \in 1..Len(dec.out) : dec.out[j].cmd = "IJE" => j < i
            /\ dec.out[i].ss = hist.first
            /\ dec.out[i].es = now
            /\ dec.out[i].key + 1 = Len(fbits)
            /\ dec.out[i].d = BitsValue(fbits)

\* a multi-bit field is annotated after one data edge in its bit-waits
C5_Witness ==
    /\ Emits(dec.out, Fields \ {"P"})
    /\ hist.edges = 1 /\ hist.ijes = 1

\* C6 as stated: the command bits 0,0,0,1 resolve to no command kind (the
\* second bit sets the extended flag, the fourth is 1), so once they have
\* been fed the transaction has no command annotation and the command key
\* is the 'none' value.
C6_ReservedCommandWarns ==
    (env.script = ScriptReserved /\ AfterSSC /\ env.periods >= 9) =>
        /\ \A i \in 1..Len(txn) : txn[i] \notin Commands
        /\ dec.cmdkey = "NULL"

\* the warning put by FIND SSC at the sample n
SSCWarningAt(n) ==
    [cmd |-> "SSC_WARNINGS", ss |-> n, es |-> n, fmt |-> FALSE,
     key |-> 0, d |-> 0]

\* FIND SSC is given a sample with the clock high
SSCSeesClockHigh == dec.pc = "ssc0" /\ now' = now + 1 /\ pins'[1] = 1

\* what FIND SSC does then
SSCWarns ==
    /\ dec'.out = <<SSCWarningAt(now')>>
    /\ dec'.state = "FIND BUS_PARK"
    /\ dec'.cmdkey = "NULL" /\ dec.cmdkey = "NULL"
    /\ dec'.Pcount = 0 /\ dec'.ADDcount = 0 /\ dec'.BPcount = 0
    /\ dec.Pcount = 0 /\ dec.ADDcount = 0 /\ dec.BPcount = 0

\* C7: in FIND SSC, at its first wait, a sample with the clock high makes
\* the decoder put exactly one SSC-Warning annotation and go to FIND
\* BUS_PARK, the command key staying 'none' and the counters zero; and from
\* then until an SSC annotation is put, no SA annotation is put.
C7_SSCWarning ==
    /\ [][SSCSeesClockHigh => SSCWarns]_vars
    /\ [](hist.warned => ~Emits(dec.out, {"SA"}))

\* FIND SSC has just warned
C7_Witness ==
    /\ hist.warned
    /\ dec.out = <<SSCWarningAt(now)>>
    /\ dec.state = "FIND BUS_PARK"

\* C8: from a Register-0-Write command annotation to the next SSC
\* annotation no ADDRESS annotation is put and the state is never FIND
\* ADDRESS.
C8_NoAddressInR0W ==
    (Len(txn) >= 3 /\ txn[3] = "R0W") =>
        /\ \A i \in 1..Len(txn) : txn[i] # "ADDRESS"
        /\ dec.state # "FIND ADDRESS"

\* a Register-0-Write transaction has run to its bus park
C8_Witness ==
    txn = <<"SSC", "SA", "R0W", "DATA", "P", "BP">>

\* the number of annotations of kind k in the transaction
CountTxn(k) == Cardinality({i \in 1..Len(txn) : txn[i] = k})

\* C9 as stated: when the second BP annotation of an
\* Extended-Register-Read-Long frame is put, the transaction has the command
\* ERRL, two ADDRESS and three P annotations.
C9_ERRLSecondPark ==
    (env.script = ScriptERRL /\ AfterSSC /\ CountTxn("BP") = 2) =>
        /\ txn[3] = "ERRL"
        /\ CountTxn("ADDRESS") = 2
        /\ CountTxn("P") = 3

\* C10: the value of every field annotation put by handle() is the unsigned
\* integer formed by the bits sampled for the field, first bit most
\* significant, as many bits as the annotation reports; and the accumulator
\* and the bit counter are zero when the first bit of a field is about to be
\* pushed.
C10_FieldValue ==
    /\ \A i \in 1..Len(dec.out) :
          dec.out[i].cmd \in Fields =>
              /\ dec.out[i].d = BitsValue(fbits)
              /\ dec.out[i].key + 1 = Len(fbits)
    /\ (dec.pc = "fld" /\ OpenBits = <<>>) =>
          (dec.databyte = 0 /\ dec.bitcount = 0)

\* a data byte with a one in its first and a zero in its last bit is put
C10_Witness ==
    /\ Emits(dec.out, {"DATA"})
    /\ Len(fbits) = 8 /\ fbits[1] = 1 /\ fbits[8] = 0
    /\ dec.pc = "fld"

\* no sample has been consumed yet
BeforeFirstSample == now = -1

\* C11 as stated: before any sample is consumed the state is FIND SSC.
C11_InitialFindSSC == BeforeFirstSample => dec.state = "FIND SSC"

\* C11: before any sample is consumed the state is FIND BUS_PARK, the
\* decoder is suspended in the first wait of that state, and no transaction
\* is open.
C11_InitialFindBusPark ==
    BeforeFirstSample =>
        /\ dec.state = "FIND BUS_PARK"
        /\ dec.pc = "bp0"
        /\ dec.cmdkey = "NULL"

\* the decoder as constructed, no sample consumed
C11_Witness ==
    /\ BeforeFirstSample
    /\ dec.state = "FIND BUS_PARK"
    /\ dec.out = <<>>

\* one of the three counters is smaller after the step
CounterDecreases ==
    \/ dec'.Pcount < dec.Pcount
    \/ dec'.ADDcount < dec.ADDcount
    \/ dec'.BPcount < dec.BPcount

\* the three counters are zero after the step
CountersCleared ==
    dec'.Pcount = 0 /\ dec'.ADDcount = 0 /\ dec'.BPcount = 0

\* C12 as stated: a counter decreases only in the step that puts an SSC
\* annotation.
C12_ResetOnlyAtSSC ==
    [][CounterDecreases => Emits(dec'.out, {"SSC"})]_vars

\* C12: a counter decreases only in the step that consumes the last bus
\* park of a transaction: the step puts a BP annotation, sets the three
\* counters to zero and the command key to 'none' and re-arms for a
\* sequence start.  In every other step, the one that puts the SSC
\* annotation included, none of the three counters decreases.
C12_ResetOnlyAtLastPark ==
    [][CounterDecreases =>
          /\ Emits(dec'.out, {"BP"})
          /\ CountersCleared
          /\ dec'.cmdkey = "NULL"
          /\ dec'.state = "FIND SSC"]_vars

\* the last bus park of a transaction with a parity field has been consumed
C12_Witness ==
    /\ Emits(dec.out, {"BP"})
    /\ CountTxn("P") >= 1
    /\ dec.Pcount = 0 /\ dec.BPcount = 0
    /\ dec.state = "FIND SSC"

\* the kinds of the fields of more than one bit, the command included
MultiBit == (Fields \ {"P"}) \cup Commands

\* C13: every SA, command, BC, ADDRESS and DATA annotation starts at the
\* sample at which the first bit of the field was read and ends at the
\* current sample, which is a clock rising edge, whatever start and end
\* values the warnings put in between have written.
C13_FieldInterval ==
    \A i \in 1..Len(dec.out) :
        dec.out[i].cmd \in MultiBit =>
            /\ dec.out[i].ss = hist.first
            /\ dec.out[i].es = now
            /\ hist.rise

\* a data byte is annotated after an IJE warning was put in its bit-waits
C13_Witness ==
    /\ Emits(dec.out, {"DATA"})
    /\ Len(fbits) = 8
    /\ hist.ijes >= 1
    /\ hist.first < now

\* the command kinds the decoder does classify: the command key is never
\* one of the extended kinds and the state is never FIND BTEY_COUNT
ClassifiedKinds ==
    /\ dec.cmdkey \in {"NULL", "R0W", "RW", "RR"}
    /\ dec.state # "FIND BTEY_COUNT"
    /\ \A i \in 1..Len(txn) : txn[i] \notin {"ERW", "ERR", "ERWL", "ERRL", "BC"}

\* C14 as stated, for the command bits 0,0,1,1,1 of
\* Extended-Register-Read-Long: once the five bits have been fed and the
\* clock has risen again, the command key is ERRL and the state is FIND
\* BTEY_COUNT.
C14_ExtendedLongReached ==
    (env.script = ScriptERRL /\ AfterSSC /\ env.periods = 10) =>
        /\ dec.cmdkey = "ERRL"
        /\ dec.state = "FIND BTEY_COUNT"

\* the command of the open transaction is Register-Write or Register-Read
ShortAddress == Len(txn) >= 3 /\ txn[3] \in {"RW", "RR"}

\* C15 as stated: an ADDRESS field is 4 bits for RW and RR (7 otherwise), a
\* DATA field 6 bits for R0W and 7 bits for RW and RR.
C15_WidthIsKey ==
    \A i \in 1..Len(dec.out) :
        /\ dec.out[i].cmd = "ADDRESS" =>
              Len(fbits) = IF ShortAddress THEN 4 ELSE 7
        /\ (dec.out[i].cmd = "DATA" /\ txn[3] = "R0W") => Len(fbits) = 6
        /\ (dec.out[i].cmd = "DATA" /\ ShortAddress) => Len(fbits) = 7

\* C15: the bits read into a field, from the first bit read after the
\* annotation before it up to the annotation of the field, are 5 for the
\* ADDRESS field of RW and RR (8 for any other command), 7 for the DATA field
\* of R0W and 8 for the DATA field of RW and RR: one more than the index the
\* annotation reports.
C15_WidthIsKeyPlusOne ==
    \A i \in 1..Len(dec.out) :
        /\ dec.out[i].cmd = "ADDRESS" =>
              Len(fbits) = IF ShortAddress THEN 5 ELSE 8
        /\ (dec.out[i].cmd = "DATA" /\ txn[3] = "R0W") => Len(fbits) = 7
        /\ (dec.out[i].cmd = "DATA" /\ ShortAddress) => Len(fbits) = 8
        /\ dec.out[i].cmd \in {"ADDRESS", "DATA"} =>
              Len(fbits) = dec.out[i].key + 1

\* the five-bit address of a Register-Read is annotated
C15_Witness ==
    /\ Emits(dec.out, {"ADDRESS"})
    /\ Len(txn) >= 3 /\ txn[3] = "RR"
    /\ Len(fbits) = 5

\* the byte count of the transaction context is never anything but zero
ByteCountUnset == dec.BC = 0

\* C16 as stated, for the Extended-Register-Read-Long frame whose byte
\* count bits are 0,0,1: once the byte count and its parity have been fed, a
\* BC annotation has been put and its value 1 is in the transaction context.
C16_ByteCountStored ==
    (env.script = ScriptERRL /\ AfterSSC /\ env.periods = 14) =>
        /\ CountTxn("BC") = 1
        /\ dec.BC = 1

\* the step consumes a bus park inside a transaction: the bus-park wait of
\* FIND BUS_PARK returns on SDATA low with SCLK low while a command is set
ParkConsumed ==
    /\ dec.pc \in {"bp0", "bp1"}
    /\ dec.cmdkey # "NULL"
    /\ now' = now + 1
    /\ pins'[1] = 0 /\ pins'[2] = 0

\* a read command is waiting for the bus park before its data
ReadParkPending == dec.cmdkey \in {"RR", "ERR", "ERRL"} /\ dec.BPcount = 1

\* the command key and the counters are unchanged by the step
ContextKept ==
    /\ dec'.cmdkey = dec.cmdkey
    /\ dec'.Pcount = dec.Pcount
    /\ dec'.ADDcount = dec.ADDcount
    /\ dec'.BPcount = dec.BPcount

\* C17: the step that consumes a bus park inside a transaction puts one BP
\* annotation; for a read command with BPcount = 1 it goes to FIND DATA and
\* keeps the command key and the counters, in every other case it sets the
\* command key to 'none' and the counters to zero and goes to FIND SSC.  No
\* other step puts a BP annotation.
C17_BusPark ==
    [][/\ ParkConsumed =>
            /\ CountOut(dec'.out, {"BP"}) = 1
            /\ IF ReadParkPending
               THEN dec'.state = "FIND DATA" /\ ContextKept
               ELSE /\ dec'.state = "FIND SSC"
                    /\ dec'.cmdkey = "NULL"
                    /\ CountersCleared
       /\ Emits(dec'.out, {"BP"}) => ParkConsumed]_vars

\* the first bus park of a Register-Read has been consumed
C17_Witness ==
    /\ Emits(dec.out, {"BP"})
    /\ dec.state = "FIND DATA"
    /\ dec.cmdkey = "RR"
    /\ dec.Pcount = 1 /\ dec.BPcount = 1

\* the states the decode loop has a branch for
HandledStates ==
    {"FIND SSC", "FIND SLAVE ADDRESS", "FIND COMMAND", "FIND BTEY_COUNT",
     "FIND ADDRESS", "FIND DATA", "FIND PARITY", "FIND BUS_PARK"}

\* C18: whenever the decoder is suspended, i.e. between any two samples,
\* the state is one of the eight handled states and the decoder is waiting
\* in a wait call; the state 'NULL' written by the parity handler never
\* survives to the top of the loop, so the loop never spins without reading.
C18_NoSpin ==
    /\ dec.state \in HandledStates
    /\ dec.pc # "spin"
    /\ WaitList(dec.pc) # <<>>

\* a parity annotation was put and the dispatch has set the next state
C18_Witness ==
    /\ Emits(dec.out, {"P"})
    /\ dec.state \in {"FIND DATA", "FIND BUS_PARK"}
    /\ dec.pc \in {"fld", "bp0"}

\* C19 as stated: a command bit other than the first is never read without
\* a clock rising edge since the sample at which the command bit before it
\* was read.
C19_OneBitPerPeriod == ~hist.again

\* two annotations of the step are IJE with the same start and end sample
TwinIJE ==
    \E i, j \in 1..Len(dec.out) :
        /\ i < j
        /\ dec.out[i].cmd = "IJE" /\ dec.out[j].cmd = "IJE"
        /\ dec.out[i].ss = dec.out[j].ss
        /\ dec.out[i].es = dec.out[j].es

\* C20 as stated: the sample a wait returns matches one pattern of the
\* list only (the mask has a single bit), and no two IJE annotations have
\* the same start and end sample.
C20_OnePatternPerSample ==
    /\ dec.matched \in {0, 1, 2, 4}
    /\ ~TwinIJE

============================================================================
